---- MODULE Spec2Model ----
(***************************************************************************)
(* Model of the EmailValidator component                                   *)
(* (src/src/components/EmailValidator.tsx): the React state of the         *)
(* component, the asynchronous handler validateEmails, and the network     *)
(* checks of ../utils/validators it awaits.                                *)
(*                                                                         *)
(* Strings are sequences of one-character strings, so that split, trim and *)
(* the format check are computed on the characters.                        *)
(***************************************************************************)
EXTENDS Naturals, Sequences, FiniteSets

VARIABLES
    emails,             \* useState<string>('')           (line 8)
    results,            \* useState<ValidationResult[]>   (line 9)
    isValidating,       \* useState(false)                (line 10)
    pc,                 \* where validateEmails is suspended
    runEmails,          \* the `emails` binding the running closure captured
    rerun,              \* the run started from the text the run before it had
    replaced,           \* how many records were on display when the run started
    emailList,          \* const emailList                (line 14)
    idx,                \* position of the for-of loop in emailList (line 17)
    domain,             \* const domain                   (line 18)
    validationResults,  \* const validationResults        (line 15)
    domainExists,       \* const domainExists             (line 22)
    settled,            \* the values array of the pending Promise.all (line 41)
    inflight,           \* the checks of the fan-out that have not replied yet
    calls,              \* every validators.* network call of the current run,
                        \* each open until the network has answered it
    net,                \* what the network answers: domain -> check -> outcome
    edits               \* number of onChange events so far

vars == <<emails, results, isValidating, pc, runEmails, rerun, replaced,
          emailList, idx,
          domain, validationResults, domainExists, settled, inflight, calls, net, edits>>

----------------------------------------------------------------------------
(* Bounds of the model. *)

\* Largest number of onChange events of the textarea. Each event adds at
\* most one line, so a text has at most MaxEdits + 1 lines.
MaxEdits == 2

----------------------------------------------------------------------------
(* Characters and strings. *)

NL == "\n"

\* The characters String.prototype.trim strips: WhiteSpace and LineTerminator
\* of ECMAScript. TAB, LF, CR and FF have an escape; U+000B, U+00A0, U+1680
\* and U+FEFF are written as the character itself; a character a string of
\* this language cannot hold is written as its code point.
Whitespace ==
    { " ", "\t", NL, "\r", "\f", "", " ", " ", "﻿",
      "U+2000", "U+2001", "U+2002", "U+2003", "U+2004", "U+2005",
      "U+2006", "U+2007", "U+2008", "U+2009", "U+200A",
      "U+2028", "U+2029", "U+202F", "U+205F", "U+3000" }

\* JavaScript's undefined (the value of an out-of-range array index).
Undefined == <<"undefined">>

\* The lines a text of the model is made of: a whitespace-only line, an
\* address without '@', and a well-formed address.
SampleLines == { <<" ", "\f">>, <<"a", "b">>, <<"a", "@", "b", ".", "c">> }

\* What an onChange event can turn the text into: the text replaced by one
\* line, or the text with a newline and one more line typed at its end.
Edited(text) ==
    { l : l \in SampleLines } \cup { text \o <<NL>> \o l : l \in SampleLines }

RECURSIVE SplitFrom(_, _, _, _)
\* String.prototype.split with a one-character separator, scanning s from
\* position i; acc holds the pieces found so far, the last one still open.
SplitFrom(s, sep, i, acc) ==
    IF i > Len(s) THEN acc
    ELSE IF s[i] = sep THEN SplitFrom(s, sep, i + 1, Append(acc, <<>>))
    ELSE SplitFrom(s, sep, i + 1,
                   [acc EXCEPT ![Len(acc)] = Append(acc[Len(acc)], s[i])])

Split(s, sep) == SplitFrom(s, sep, 1, << <<>> >>)

RECURSIVE TrimStart(_)
TrimStart(s) ==
    IF Len(s) > 0 /\ s[1] \in Whitespace THEN TrimStart(Tail(s)) ELSE s

RECURSIVE TrimEnd(_)
TrimEnd(s) ==
    IF Len(s) > 0 /\ s[Len(s)] \in Whitespace
    THEN TrimEnd(SubSeq(s, 1, Len(s) - 1)) ELSE s

\* String.prototype.trim
Trim(s) == TrimEnd(TrimStart(s))

\* A JavaScript string is truthy unless it is empty.
Truthy(s) == s # <<>>

----------------------------------------------------------------------------
(* ../utils/validators: the format checker and the seven network checks.   *)

Outcomes == {"yes", "no", "error"}

\* Faulty variant of FanOutChecks: checkSPF called where checkDKIM belongs.
FanOutChecksSpfTwice ==
    << "checkMXRecords", "checkSPF", "checkSPF",
       "checkDMARC", "checkSMTP", "checkBlacklists" >>

\* Promise.all's argument, in order                       (lines 42-47)
FanOutChecks ==
    << "checkMXRecords", "checkSPF", "checkDKIM",
       "checkDMARC", "checkSMTP", "checkBlacklists" >>

AllChecks == {"checkDomainExists"} \cup { FanOutChecks[k] : k \in DOMAIN FanOutChecks }

\* number of occurrences of the character ch in s
Count(s, ch) == Cardinality({ i \in DOMAIN s : s[i] = ch })

\* validators.validateEmailFormat: exactly one '@', a non-empty local part,
\* a non-empty domain part that contains a '.', and no illegal character.
validateEmailFormat(email) ==
    /\ Count(email, "@") = 1
    /\ \A i \in DOMAIN email : email[i] \notin Whitespace
    /\ LET at == CHOOSE i \in DOMAIN email : email[i] = "@"
       IN  /\ at > 1
           /\ at < Len(email)
           /\ \E i \in (at + 1)..Len(email) : email[i] = "."

Fulfilled(v) == [status |-> "fulfilled", value |-> v]

Rejected == [status |-> "rejected", value |-> FALSE]

\* The outcome of a check that breaks its contract and lets the error out.
Raise == "raise"

\* How a network check's promise settles when the network answers with
\* outcome: the checks fail closed, an error is reported as false; the
\* promise of a check that raises is rejected.
CheckSettles(outcome) ==
    IF outcome = Raise THEN Rejected ELSE Fulfilled(outcome = "yes")

\* validators.<check>(domain), once the network has answered
NetworkCheck(check, dom) == CheckSettles(net[dom][check])

----------------------------------------------------------------------------
(* validateEmails (lines 12-78). *)

\* Faulty variant of DomainOf: index 0 of the split, the local part.
DomainOfLocalPart(email) == Split(email, "@")[1]

\* email.split('@')[1]                                    (line 18)
DomainOf(email) ==
    LET parts == Split(email, "@")
    IN  IF Len(parts) >= 2 THEN parts[2] ELSE Undefined

\* Faulty variant of EmailListOf: the filter without trim, which keeps the
\* lines made of whitespace.
EmailListOfNoTrim(text) == SelectSeq(Split(text, NL), LAMBDA email : Truthy(email))

\* emails.split('\n').filter(email => email.trim())       (line 14)
EmailListOf(text) == SelectSeq(Split(text, NL), LAMBDA email : Truthy(Trim(email)))

Checked(email, fv, de, mx, sp, dk, dm, sm, bl) ==
    [ email |-> email, formatValid |-> fv, domainExists |-> de,
      mxRecords |-> mx, spf |-> sp, dkim |-> dk, dmarc |-> dm,
      smtp |-> sm, blacklisted |-> bl ]

\* Faulty variant of NoDomainRecord: one field of the literal left true.
NoDomainRecordSmtpTrue(email) ==
    Checked(email, TRUE, FALSE, FALSE, FALSE, FALSE, FALSE, TRUE, FALSE)

\* the record pushed when the domain does not exist       (lines 26-36)
NoDomainRecord(email) ==
    Checked(email, TRUE, FALSE, FALSE, FALSE, FALSE, FALSE, FALSE, FALSE)

\* the record pushed after the fan-out; v is the array Promise.all
\* resolved with, destructured by position                (lines 41, 50-60)
FullRecord(email, fv, de, v) ==
    Checked(email, fv, de, v[1], v[2], v[3], v[4], v[5], v[6])

\* Faulty variant of InvalidRecord: the literal of lines 26-36 pasted into
\* the else branch, formatValid: true included.
InvalidRecordPasted(email, formatValid) == NoDomainRecord(email)

\* the record pushed when the format is invalid           (lines 62-72)
InvalidRecord(email, formatValid) ==
    Checked(email, formatValid, FALSE, FALSE, FALSE, FALSE, FALSE, FALSE, FALSE)

\* a call validators.<check>(domain) made for the address at position i
Call(i, check, dom) ==
    [idx |-> i, check |-> check, domain |-> dom, open |-> TRUE]

\* the log once the network has answered the call of check for position i
Answered(log, i, check) ==
    [ n \in DOMAIN log |->
        IF log[n].idx = i /\ log[n].check = check
        THEN [log[n] EXCEPT !.open = FALSE] ELSE log[n] ]

\* Faulty variant of FanOutCalls: the domain probed once more in the fan-out.
FanOutCallsWithProbe(i, dom) ==
    << Call(i, "checkDomainExists", dom) >>
        \o [ k \in DOMAIN FanOutChecks |-> Call(i, FanOutChecks[k], dom) ]

\* Faulty variant of FanOutCalls: the next address is probed while the
\* fan-out of this one is still waiting.
FanOutCallsAndNextProbe(i, dom) ==
    [ k \in DOMAIN FanOutChecks |-> Call(i, FanOutChecks[k], dom) ]
        \o << Call(i + 1, "checkDomainExists", dom) >>

\* the calls the array literal of Promise.all makes       (lines 42-47)
FanOutCalls(i, dom) ==
    [ k \in DOMAIN FanOutChecks |-> Call(i, FanOutChecks[k], dom) ]

\* A slot of the values array of Promise.all: empty until its promise
\* is fulfilled.
Pending == [filled |-> FALSE, value |-> FALSE]

Filled(v) == [filled |-> TRUE, value |-> v]

\* the array Promise.all resolves with
Values(vals) == [k \in DOMAIN vals |-> vals[k].value]

\* Faulty variant of PromiseAllSettle: the values collected in the order in
\* which the promises settle.
PromiseAllSettleInArrivalOrder(vals, k, v) ==
    LET free == CHOOSE n \in DOMAIN vals :
                    /\ vals[n] = Pending
                    /\ \A m \in DOMAIN vals : m < n => vals[m] # Pending
    IN  [vals EXCEPT ![free] = Filled(v)]

\* Faulty variant of AllSettled: Promise.race in place of Promise.all, the
\* handler runs on at the first answer.
AllSettledAtFirst(waiting, k) == TRUE

\* Promise.all resolves when the last of its promises is fulfilled: the
\* k-th one, when no other is waiting                     (line 41)
AllSettled(waiting, k) == waiting = {k}

\* Promise.all stores the value of its k-th promise at index k
PromiseAllSettle(vals, k, v) == [vals EXCEPT ![k] = Filled(v)]

RECURSIVE Resume(_, _, _, _)
\* The for-of loop from position i on, run until it suspends at the await of
\* line 22 or leaves the loop: the addresses whose format is invalid are
\* handled without suspending.                            (lines 17-22, 61-74)
Resume(list, i, vr, log) ==
    IF i > Len(list)
    THEN [pc |-> "idle", idx |-> i, dom |-> Undefined, vr |-> vr, log |-> log,
          done |-> TRUE]
    ELSE LET email == list[i]
             dom == DomainOf(email)
             formatValid == validateEmailFormat(email)
         IN  IF formatValid
             THEN [pc |-> "awaitDomain", idx |-> i, dom |-> dom, vr |-> vr,
                   log |-> Append(log, Call(i, "checkDomainExists", dom)),
                   done |-> FALSE]
             ELSE Resume(list, i + 1, Append(vr, InvalidRecord(email, formatValid)), log)

\* Faulty variant of ShortCircuit: the test of line 24 dropped, the fan-out
\* runs whatever checkDomainExists answered.
ShortCircuitNever(exists) == FALSE

\* if (!domainExists)                                     (line 24)
ShortCircuit(exists) == ~exists

\* Faulty variant of AfterNoDomain: `break` in place of `continue`.
AfterNoDomainBreak(list, i, vr, log) ==
    [pc |-> "idle", idx |-> i, dom |-> Undefined, vr |-> vr, log |-> log,
     done |-> TRUE]

\* `continue` (line 37): on to the next address
AfterNoDomain(list, i, vr, log) == Resume(list, i + 1, vr, log)

\* Faulty variant of Published: setResults called inside the loop, so every
\* suspension shows the records gathered so far.
PublishedEarly(r, old) == r.vr

\* setResults(validationResults) runs after the loop only (line 76)
Published(r, old) == IF r.done THEN r.vr ELSE old

\* Faulty variant of StillValidating: line 77 missing.
StillValidatingForever(r) == TRUE

\* setIsValidating(true) at the start, setIsValidating(false) after the
\* loop                                                   (lines 13, 77)
StillValidating(r) == ~r.done

\* Faulty variant of FreshBatch: the array of the run before reused.
FreshBatchKeepsOld(old) == old

\* const validationResults = []                           (line 15)
FreshBatch(old) == <<>>

\* Faulty variant of ButtonEnabled: the disabled attribute missing.
ButtonAlwaysEnabled(validating) == TRUE

\* disabled={isValidating}                                (line 118)
ButtonEnabled(validating) == ~validating

\* Faulty variant of ListAfterEdit: the list of the run follows the textarea.
ListAfterEditLive(list, v) == EmailListOf(v)

\* onChange calls setEmails and nothing else: the list the run iterates
\* over is the one built at line 14                       (lines 14, 110)
ListAfterEdit(list, v) == list

\* What the handler leaves behind when it runs from r: suspended again, or
\* finished with lines 76-77.
Continue(r) ==
    /\ pc' = r.pc
    /\ idx' = r.idx
    /\ domain' = r.dom
    /\ validationResults' = r.vr
    /\ calls' = r.log
    /\ results' = Published(r, results)
    /\ isValidating' = StillValidating(r)
    /\ domainExists' = FALSE
    /\ settled' = <<>>
    /\ inflight' = {}

\* The awaited promise rejected: validateEmails has no try/catch, so the
\* handler ends there and lines 76-77 never run. The call that raised has
\* been answered (log); the other calls of the fan-out (waiting) are still
\* with the network, and their answers reach a handler that has ended.
Abandon(log, waiting) ==
    /\ pc' = "rejected"
    /\ settled' = <<>>
    /\ inflight' = waiting
    /\ calls' = log
    /\ UNCHANGED <<idx, domain, validationResults, domainExists, results,
                   isValidating>>

\* onChange of the textarea                               (line 110)
SetEmails(v) ==
    /\ edits < MaxEdits
    /\ emails' = v
    /\ edits' = edits + 1
    /\ emailList' = ListAfterEdit(emailList, v)
    /\ UNCHANGED <<results, isValidating, pc, runEmails, rerun, replaced, idx, domain,
                   validationResults, domainExists, settled, inflight, calls, net>>

\* onClick of the button, which is disabled while isValidating (lines 116-118):
\* validateEmails up to its first await                   (lines 12-22)
Validate ==
    /\ ButtonEnabled(isValidating)
    /\ runEmails' = emails
    /\ rerun' = (emails = runEmails)
    /\ replaced' = Len(results)
    /\ emailList' = EmailListOf(emails)
    /\ Continue(Resume(EmailListOf(emails), 1, FreshBatch(results), <<>>))
    /\ UNCHANGED <<emails, net, edits>>

\* checkDomainExists answers: lines 22-48 up to the next await
DomainExistsReturns ==
    /\ pc = "awaitDomain"
    /\ LET email == emailList[idx]
           p == NetworkCheck("checkDomainExists", domain)
       IN  IF p.status = "rejected"
           THEN Abandon(Answered(calls, idx, "checkDomainExists"), {})
           ELSE IF ShortCircuit(p.value)
           THEN Continue(AfterNoDomain(emailList, idx,
                            Append(validationResults, NoDomainRecord(email)),
                            Answered(calls, idx, "checkDomainExists")))
           ELSE /\ pc' = "awaitAll"
                /\ domainExists' = p.value
                /\ calls' = Answered(calls, idx, "checkDomainExists")
                                \o FanOutCalls(idx, domain)
                /\ settled' = [k \in DOMAIN FanOutChecks |-> Pending]
                /\ inflight' = DOMAIN FanOutChecks
                /\ UNCHANGED <<idx, domain, validationResults, results,
                               isValidating>>
    /\ UNCHANGED <<emails, runEmails, rerun, replaced, emailList, net, edits>>

\* The k-th check of the fan-out answers; the last answer resolves
\* Promise.all and the handler runs on: lines 41-60, then the loop. An
\* answer that raises rejects Promise.all at once, and an answer that comes
\* after that only settles its own promise.
CheckReturns(k) ==
    /\ pc \in {"awaitAll", "rejected"}
    /\ k \in inflight
    /\ LET email == emailList[idx]
           p == NetworkCheck(FanOutChecks[k], domain)
           vals == PromiseAllSettle(settled, k, p.value)
       IN  IF pc = "rejected" \/ p.status = "rejected"
           THEN Abandon(Answered(calls, idx, FanOutChecks[k]), inflight \ {k})
           ELSE IF AllSettled(inflight, k)
           THEN Continue(Resume(emailList, idx + 1,
                            Append(validationResults, FullRecord(email, validateEmailFormat(email),
                                                                 domainExists, Values(vals))),
                            Answered(calls, idx, FanOutChecks[k])))
           ELSE /\ settled' = vals
                /\ inflight' = inflight \ {k}
                /\ calls' = Answered(calls, idx, FanOutChecks[k])
                /\ UNCHANGED <<pc, idx, domain, validationResults, domainExists,
                               results, isValidating>>
    /\ UNCHANGED <<emails, runEmails, rerun, replaced, emailList, net, edits>>

----------------------------------------------------------------------------
(* The network and the initial state. *)

Domains == { DomainOf(l) : l \in { s \in SampleLines : validateEmailFormat(s) } }

\* A network in which at most one check of one domain does not answer yes.
Worlds ==
    { w \in [Domains -> [AllChecks -> Outcomes]] :
        Cardinality({ dc \in Domains \X AllChecks : w[dc[1]][dc[2]] # "yes" }) <= 1 }

\* A network in which one check of one domain raises and all the others
\* answer yes.
RaisingWorlds ==
    { w \in [Domains -> [AllChecks -> {"yes", Raise}]] :
        Cardinality({ dc \in Domains \X AllChecks : w[dc[1]][dc[2]] = Raise }) = 1 }

\* the component as mounted: the initial values of useState (lines 8-10)
Mounted ==
    /\ emails = <<>>
    /\ results = <<>>
    /\ isValidating = FALSE
    /\ pc = "idle"
    /\ runEmails = <<>>
    /\ rerun = FALSE
    /\ replaced = 0
    /\ emailList = <<>>
    /\ idx = 1
    /\ domain = Undefined
    /\ validationResults = <<>>
    /\ domainExists = FALSE
    /\ settled = <<>>
    /\ inflight = {}
    /\ calls = <<>>
    /\ edits = 0

Init == Mounted /\ net \in Worlds

InitRaise == Mounted /\ net \in RaisingWorlds

Next ==
    \/ \E v \in Edited(emails) : SetEmails(v)
    \/ Validate
    \/ DomainExistsReturns
    \/ \E k \in DOMAIN FanOutChecks : CheckReturns(k)

Spec == Init /\ [][Next]_vars

\* The network answers every call it was sent: an answer that can arrive
\* does arrive.
AnswersArrive ==
    /\ WF_vars(DomainExistsReturns)
    /\ WF_vars(\E k \in DOMAIN FanOutChecks : CheckReturns(k))

SpecLive == Spec /\ AnswersArrive

\* The component over a network in which a check raises.
SpecRaise == InitRaise /\ [][Next]_vars

----------------------------------------------------------------------------
(* Properties. *)

\* the seven network checks of ../utils/validators
SevenChecks ==
    { "checkDomainExists", "checkMXRecords", "checkSPF", "checkDKIM",
      "checkDMARC", "checkSMTP", "checkBlacklists" }

SixChecks == SevenChecks \ {"checkDomainExists"}

\* the positions of the current run that already have their record
Recorded == 1..Len(validationResults)

\* number of calls of check made for the address at position j
CallCount(j, check) ==
    Cardinality({ n \in DOMAIN calls : calls[n].idx = j /\ calls[n].check = check })

\* number of network calls made for the address at position j
CallsFor(j) == Cardinality({ n \in DOMAIN calls : calls[n].idx = j })

\* what check answers for the domain of address a: the boolean it returns
Answer(check, a) == NetworkCheck(check, DomainOf(a)).value

DependentAllFalse(r) ==
    /\ r.mxRecords = FALSE
    /\ r.spf = FALSE
    /\ r.dkim = FALSE
    /\ r.dmarc = FALSE
    /\ r.smtp = FALSE
    /\ r.blacklisted = FALSE

\* C1: an address the format checker rejects gets a record with
\* formatValid = false and every other check field false, and no network
\* check is ever called for it.
C1_InvalidFormatNoNetwork ==
    \A j \in DOMAIN emailList :
        ~validateEmailFormat(emailList[j]) =>
            /\ CallsFor(j) = 0
            /\ j \in Recorded =>
                  /\ validationResults[j].email = emailList[j]
                  /\ validationResults[j].formatValid = FALSE
                  /\ validationResults[j].domainExists = FALSE
                  /\ DependentAllFalse(validationResults[j])

\* a rejected address has its record in a run that did call the network
C1_Witness ==
    /\ calls # <<>>
    /\ \E j \in Recorded : ~validateEmailFormat(emailList[j])

\* C2: a well-formed address whose checkDomainExists returns false gets
\* formatValid = true, domainExists = false and the six other fields false,
\* and none of the six dependent checks is called for it.
C2_ShortCircuit ==
    \A j \in DOMAIN emailList :
        (validateEmailFormat(emailList[j]) /\ ~Answer("checkDomainExists", emailList[j])) =>
            /\ \A c \in SixChecks : CallCount(j, c) = 0
            /\ j \in Recorded =>
                  /\ validationResults[j].email = emailList[j]
                  /\ validationResults[j].formatValid = TRUE
                  /\ validationResults[j].domainExists = FALSE
                  /\ DependentAllFalse(validationResults[j])
                  /\ CallCount(j, "checkDomainExists") = 1

\* the record of a well-formed address whose domain does not exist
C2_Witness ==
    \E j \in Recorded :
        /\ validateEmailFormat(emailList[j])
        /\ ~Answer("checkDomainExists", emailList[j])
        /\ CallCount(j, "checkDomainExists") = 1

\* C3: for a well-formed address whose domain exists, each of the seven
\* checks is called exactly once: never twice, and once its record is
\* there, not zero times.
C3_EachCheckOnce ==
    \A j \in DOMAIN emailList :
        (validateEmailFormat(emailList[j]) /\ Answer("checkDomainExists", emailList[j])) =>
            \A c \in SevenChecks :
                /\ CallCount(j, c) <= 1
                /\ j \in Recorded => CallCount(j, c) = 1

\* the record of a well-formed address whose domain exists
C3_Witness ==
    \E j \in Recorded :
        /\ validateEmailFormat(emailList[j])
        /\ Answer("checkDomainExists", emailList[j])
        /\ CallsFor(j) > 0

\* C4: for a well-formed address whose domain exists, each field of the
\* record is the boolean its own check returned, whatever the order in which
\* the six checks answered.
C4_FieldsMatchOwnCheck ==
    \A j \in Recorded :
        (validateEmailFormat(emailList[j]) /\ Answer("checkDomainExists", emailList[j])) =>
            /\ validationResults[j].mxRecords = Answer("checkMXRecords", emailList[j])
            /\ validationResults[j].spf = Answer("checkSPF", emailList[j])
            /\ validationResults[j].dkim = Answer("checkDKIM", emailList[j])
            /\ validationResults[j].dmarc = Answer("checkDMARC", emailList[j])
            /\ validationResults[j].smtp = Answer("checkSMTP", emailList[j])
            /\ validationResults[j].blacklisted = Answer("checkBlacklists", emailList[j])

\* a record whose fields differ, with a later address in its own fan-out in
\* which the first check of the array is the last one still to answer
C4_Witness ==
    /\ pc = "awaitAll"
    /\ inflight = {1}
    /\ \E j \in Recorded :
          /\ validationResults[j].domainExists
          /\ validationResults[j].dkim # validationResults[j].spf

(* The lines of a text, read off the positions of its newlines. *)

NewlinesOf(t) == { i \in DOMAIN t : t[i] = NL }

LineCount(t) == Cardinality(NewlinesOf(t)) + 1

\* position of the n-th newline of t; 0 before the first line, Len(t) + 1
\* after the last
Boundary(t, n) ==
    IF n = 0 THEN 0
    ELSE IF n > Cardinality(NewlinesOf(t)) THEN Len(t) + 1
    ELSE CHOOSE p \in NewlinesOf(t) :
             Cardinality({ q \in NewlinesOf(t) : q < p }) = n - 1

\* the n-th line of t
LineOf(t, n) == SubSeq(t, Boundary(t, n - 1) + 1, Boundary(t, n) - 1)

\* the lines of t that hold a character other than whitespace
NonBlankLines(t) ==
    { n \in 1..LineCount(t) : \E i \in DOMAIN LineOf(t, n) : LineOf(t, n)[i] \notin Whitespace }

\* the i-th non-blank line of t
NonBlankLine(t, i) ==
    LineOf(t, CHOOSE n \in NonBlankLines(t) :
                  Cardinality({ m \in NonBlankLines(t) : m < n }) = i - 1)

\* a run was started and has finished
RunComplete == pc = "idle" /\ ~isValidating

\* C5: when a run completes, the published sequence has one record per
\* non-blank line of the input the run started from, and record i carries
\* the i-th non-blank line: order kept, duplicates kept.
C5_OutputMatchesFilteredInput ==
    RunComplete =>
        /\ Len(results) = Cardinality(NonBlankLines(runEmails))
        /\ \A i \in DOMAIN results : results[i].email = NonBlankLine(runEmails, i)

\* a completed run over a blank line and the same address twice, one record
\* per address
C5_Witness ==
    /\ RunComplete
    /\ LineCount(runEmails) = 3
    /\ Len(results) = 2
    /\ results[1].email = results[2].email
    /\ results[1].domainExists

\* some check of the current run was answered with a network error
ErrorSeen ==
    \E n \in DOMAIN calls :
        /\ net[calls[n].domain][calls[n].check] = "error"
        /\ \/ calls[n].idx \in Recorded
           \/ pc = "rejected"

\* the field of record r that check fills
FieldOf(r, check) ==
    CASE check = "checkDomainExists" -> r.domainExists
      [] check = "checkMXRecords" -> r.mxRecords
      [] check = "checkSPF" -> r.spf
      [] check = "checkDKIM" -> r.dkim
      [] check = "checkDMARC" -> r.dmarc
      [] check = "checkSMTP" -> r.smtp
      [] check = "checkBlacklists" -> r.blacklisted

\* C6: a check that ends in a network error yields false in its own field
\* and in no other; the error does not reach validateEmails: the handler is
\* not abandoned, the address gets its record, and when the run ends every
\* address of the list has one.
C6_FailClosed ==
    /\ pc # "rejected"
    /\ \A n \in DOMAIN calls :
          (net[calls[n].domain][calls[n].check] = "error" /\ calls[n].idx \in Recorded) =>
              LET r == validationResults[calls[n].idx]
              IN  /\ FieldOf(r, calls[n].check) = FALSE
                  /\ \A m \in DOMAIN calls :
                        (calls[m].idx = calls[n].idx /\ net[calls[m].domain][calls[m].check] = "yes")
                            => FieldOf(r, calls[m].check) = TRUE
    /\ (ErrorSeen /\ pc = "idle") =>
          /\ Len(validationResults) = Len(emailList)
          /\ results = validationResults

\* a completed run in which a check of the fan-out failed with a network
\* error and a later address got its record
C6_Witness ==
    /\ RunComplete
    /\ \E n \in DOMAIN calls :
          /\ net[calls[n].domain][calls[n].check] = "error"
          /\ calls[n].check # "checkDomainExists"
          /\ calls[n].idx < Len(results)

\* the batch of a finished run
CompleteBatch(rs) ==
    /\ pc = "idle"
    /\ rs = validationResults
    /\ Len(rs) = Len(emailList)

\* C7: results changes only in the step that ends a run, and then to the
\* complete batch of that run: until then it keeps the value it had when
\* the run started.
C7_NoPartialBatch ==
    [][ results' # results => (pc' = "idle" /\ ~isValidating'
                                /\ results' = validationResults'
                                /\ Len(results') = Len(emailList')) ]_vars

\* a run in progress that has gathered a record while results still shows
\* the batch of the run before
C7_Witness ==
    /\ isValidating
    /\ Len(validationResults) >= 1
    /\ Len(validationResults) < Len(emailList)
    /\ results # <<>>
    /\ results # validationResults

RecordInvariant(r) ==
    /\ ~r.formatValid => ~r.domainExists
    /\ (~r.formatValid \/ ~r.domainExists) => DependentAllFalse(r)

\* C8: every record placed in the batch, and every record published,
\* satisfies: formatValid false implies domainExists false, and either of
\* them false implies the six dependent fields false.
C8_RecordInvariant ==
    /\ \A j \in DOMAIN validationResults : RecordInvariant(validationResults[j])
    /\ \A j \in DOMAIN results : RecordInvariant(results[j])

\* a batch holding a rejected address and a well-formed one whose domain
\* does not exist
C8_Witness ==
    \E i, j \in DOMAIN validationResults :
        /\ ~validationResults[i].formatValid
        /\ validationResults[j].formatValid
        /\ ~validationResults[j].domainExists

\* C9, as stated: at most six network calls per address, none when the
\* format is invalid.
C9_AtMostSixCalls ==
    \A j \in DOMAIN emailList :
        /\ CallsFor(j) <= 6
        /\ ~validateEmailFormat(emailList[j]) => CallsFor(j) = 0

\* C9, amended: at most seven network calls per address (the probe of the
\* domain and the six concurrent checks), exactly one when the domain does
\* not exist, none when the format is invalid.
C9_AtMostSevenCalls ==
    \A j \in DOMAIN emailList :
        /\ CallsFor(j) <= 7
        /\ ~validateEmailFormat(emailList[j]) => CallsFor(j) = 0
        /\ (j \in Recorded /\ validateEmailFormat(emailList[j])
              /\ ~validationResults[j].domainExists) => CallsFor(j) = 1

\* an address with its record and seven calls
C9_Witness ==
    \E j \in Recorded : CallsFor(j) = 7

\* a run is suspended at one of its awaits
RunInProgress == pc \in {"awaitDomain", "awaitAll"}

\* The step that cancels a run: the run ends before every address of its
\* list has a record, and results is left as it was.
CancelStep ==
    /\ RunInProgress
    /\ pc' = "idle"
    /\ ~isValidating'
    /\ Len(validationResults') < Len(emailList')
    /\ results' = results

\* C10: a run in progress can be cancelled, and the cancelled run ends
\* without committing a partial batch: in every state in which a run is
\* suspended, a step that cancels it is possible.
C10_RunCanBeCancelled == RunInProgress => ENABLED (Next /\ CancelStep)

\* the step ends a run: the last answer arrived, or the click found no
\* address to wait for
CompletesRun == pc' = "idle" /\ ~isValidating' /\ edits' = edits

\* C11: a run started from the text the run before it was started from,
\* against a network that answers as before, publishes the sequence the run
\* before it published.
C11_Idempotent ==
    [][ (CompletesRun /\ rerun') => results' = results ]_vars

\* a second run over the same text has finished: two records whose domain
\* exists, and not all checks answered alike
C11_Witness ==
    /\ RunComplete
    /\ rerun
    /\ Len(results) = 2
    /\ results[1].domainExists
    /\ results[2].spf # results[2].smtp

\* C12: the record of an address is appended only after every check made
\* for it has answered: no call for an address that has its record is open,
\* and while Promise.all waits the address it waits for has no record.
C12_FanInJoin ==
    /\ \A n \in DOMAIN calls : calls[n].open => calls[n].idx \notin Recorded
    /\ pc = "awaitAll" => (inflight # {} /\ idx \notin Recorded)

\* a record built from six answers, with the next address waiting
C12_Witness ==
    /\ pc = "awaitAll"
    /\ Cardinality(inflight) = 3
    /\ \E j \in Recorded :
          /\ validationResults[j].domainExists
          /\ \A c \in SixChecks :
                \E n \in DOMAIN calls :
                    calls[n].idx = j /\ calls[n].check = c /\ ~calls[n].open

\* the run has ended and its complete batch is published
BatchPublished ==
    /\ RunComplete
    /\ results = validationResults
    /\ Len(results) = Len(emailList)

\* C13: provided every check that was issued answers, a run that was
\* started ends: its complete batch is published and isValidating is false
\* again; a click that finds nothing to wait for (an empty input among
\* them) publishes at once.
C13_RunTerminates ==
    /\ isValidating ~> BatchPublished
    /\ [][ (~isValidating /\ edits' = edits) => (isValidating' \/ BatchPublished') ]_vars

\* a run that had to wait for the network has ended with its batch published
C13_Witness ==
    /\ BatchPublished
    /\ Len(results) >= 2
    /\ \E n \in DOMAIN calls : calls[n].check = "checkSMTP" /\ ~calls[n].open

\* the position of the first '@' of an address that has one
FirstAt(a) == CHOOSE i \in 1..Len(a) : a[i] = "@" /\ \A j \in 1..(i - 1) : a[j] # "@"

\* the substring of an address after its first '@'
AfterFirstAt(a) == SubSeq(a, FirstAt(a) + 1, Len(a))

\* C14: every call of a run, the probe of the domain and the six checks of
\* the fan-out alike, is handed the substring after the first '@' of the
\* address it is made for, so all the calls for one address get one string;
\* that string is also the one the suspended handler holds.
C14_SameDomainAfterAt ==
    /\ \A n \in DOMAIN calls :
          /\ "@" \in { emailList[calls[n].idx][i] : i \in 1..Len(emailList[calls[n].idx]) }
          /\ calls[n].domain = AfterFirstAt(emailList[calls[n].idx])
    /\ \A n, m \in DOMAIN calls :
          calls[n].idx = calls[m].idx => calls[n].domain = calls[m].domain
    /\ RunInProgress => domain = AfterFirstAt(emailList[idx])

\* the second address of a run is in its fan-out: seven calls were made for
\* it, all with the domain b.c
C14_Witness ==
    /\ pc = "awaitAll"
    /\ idx = 2
    /\ domain = <<"b", ".", "c">>
    /\ Cardinality({ n \in DOMAIN calls : calls[n].idx = 2 /\ calls[n].domain = domain }) = 7

\* C15: the step that ends a run publishes the records of that run and
\* nothing else: one record per address of the run, in the order of the run,
\* whatever batch was on display before, a longer one included.
C15_Superseded ==
    [][ CompletesRun =>
          /\ Len(results') = Len(emailList')
          /\ \A j \in DOMAIN results' : results'[j].email = emailList'[j] ]_vars

\* a run has finished with fewer records than the batch it replaced
C15_Witness ==
    /\ RunComplete
    /\ Len(emailList) < replaced
    /\ Len(results) = Len(emailList)

\* the calls the network has not answered yet
OpenCalls == { n \in DOMAIN calls : calls[n].open }

\* C16: the addresses of a run are handled one after another: a call is made
\* for a position only when every position before it has its record, so the
\* calls in flight are at most six and all for the one address that is next
\* to be recorded.
C16_OneAddressAtATime ==
    /\ \A n \in DOMAIN calls : calls[n].idx <= Len(validationResults) + 1
    /\ \A n \in OpenCalls : calls[n].idx = Len(validationResults) + 1
    /\ \A n, m \in OpenCalls : calls[n].idx = calls[m].idx
    /\ Cardinality(OpenCalls) <= 6

\* six calls in flight for the second address, the first one recorded
C16_Witness ==
    /\ Cardinality(OpenCalls) = 6
    /\ Len(validationResults) = 1
    /\ Len(emailList) = 2
    /\ \A n \in OpenCalls : calls[n].idx = 2

\* C17: isValidating is true exactly while a run is in progress, that is
\* while validateEmails is suspended at one of its awaits; it is false when
\* no run is active, also after a run that a raising check has ended.
C17_ValidatingIffRunInProgress == isValidating <=> RunInProgress

\* C18: at most one run is in progress: while a run is suspended
\* isValidating is true and the button cannot start another one, so every
\* step of that time leaves the text, the list and the start of the run as
\* they are, and the batch that is published is the one of the run started
\* last.
C18_OneRunAtATime ==
    /\ [](RunInProgress => (isValidating /\ ~ENABLED Validate))
    /\ [][ RunInProgress =>
              /\ runEmails' = runEmails
              /\ emailList' = emailList
              /\ replaced' = replaced
              /\ (results' # results => results' = validationResults') ]_vars

\* a run is suspended in its fan-out and the text has been edited since it
\* started: a second run is wanted and cannot start
C18_Witness ==
    /\ pc = "awaitAll"
    /\ isValidating
    /\ emails # runEmails
    /\ ~ENABLED Validate

\* C19: a run works on the text as it was when the run started, whatever
\* the textarea holds since: the list it iterates over is the list of the
\* addresses of that text in their order, every record it has gathered and every
\* call it has made is for the line at its position, and the batch it
\* publishes has one record per such line.
C19_RunUsesSnapshot ==
    LET snapshot == EmailListOf(runEmails)
    IN  /\ emailList = snapshot
        /\ \A j \in DOMAIN validationResults :
              /\ j <= Len(snapshot)
              /\ validationResults[j].email = snapshot[j]
        /\ \A n \in DOMAIN calls :
              /\ calls[n].idx <= Len(snapshot)
              /\ calls[n].domain = AfterFirstAt(snapshot[calls[n].idx])
        /\ ~isValidating =>
              /\ Len(results) = Len(snapshot)
              /\ \A j \in DOMAIN results : results[j].email = snapshot[j]

\* a run over one address is about to get its last answer while the
\* textarea holds two addresses
C19_Witness ==
    /\ pc = "awaitAll"
    /\ Cardinality(inflight) = 1
    /\ emails # runEmails
    /\ Len(emailList) = 1
    /\ Cardinality(NonBlankLines(emails)) = 2

=============================================================================
